---- MODULE Spec2Model ----
(***************************************************************************)
(* Model of the WebOpenSSL facade: rand, dgst and enc with their Web       *)
(* Crypto (primary) and CryptoJS (fallback) paths.                         *)
(*                                                                         *)
(* Representation.  A JavaScript string is a sequence of UTF-16 code       *)
(* units (naturals); a Uint8Array is a sequence of 0..255.  undefined and  *)
(* '' are both falsy wherever the code tests a string option, so an absent *)
(* string option is the empty sequence.  Values whose JavaScript type      *)
(* matters (input, results) are records [t |-> type, v |-> contents].      *)
(***************************************************************************)
EXTENDS Integers, Sequences, FiniteSets, TLC

VARIABLES pc, call, out, trace, prev

vars == <<pc, call, out, trace, prev>>

(***************************************************************************)
(* Bounds of the model.                                                    *)
(***************************************************************************)
MaxLength == 2

\* the longest segment of a subject
MaxSegLen == 4

\* the longest byte sequence put through the codec
MaxCodecLen == 3

RECURSIVE SumSeq(_)
SumSeq(s) == IF s = <<>> THEN 0 ELSE Head(s) + SumSeq(Tail(s))

RECURSIVE Concat(_)
Concat(ss) == IF ss = <<>> THEN <<>> ELSE Head(ss) \o Concat(Tail(ss))

Zeros(n) == [i \in 1..n |-> 0]

Min(a, b) == IF a < b THEN a ELSE b

(***************************************************************************)
(* Hexadecimal.                                                            *)
(***************************************************************************)
\* value of a hexadecimal digit, -1 when the code unit is none
HexVal(c) ==
  IF c >= 48 /\ c <= 57 THEN c - 48
  ELSE IF c >= 97 /\ c <= 102 THEN c - 87
  ELSE IF c >= 65 /\ c <= 70 THEN c - 55
  ELSE -1

IsHexDigit(c) == HexVal(c) >= 0

\* parseInt(g, 16) of a group of one or two code units: the longest prefix
\* of hexadecimal digits; NaN is -1.  (Signs, white space and 0x prefixes
\* are outside the model's alphabet.)
ParseInt16(g) ==
  IF Len(g) = 0 \/ ~IsHexDigit(g[1]) THEN -1
  ELSE IF Len(g) >= 2 /\ IsHexDigit(g[2]) THEN 16 * HexVal(g[1]) + HexVal(g[2])
  ELSE HexVal(g[1])

\* storing a number into a Uint8Array: NaN becomes 0
ToUint8(n) == IF n < 0 THEN 0 ELSE n % 256

\* s.match(/.{1,2}/g): consecutive groups of two code units, a last group
\* of one when the length is odd; null (here <<>>) for the empty string
HexGroups(s) ==
  [i \in 1..((Len(s) + 1) \div 2) |->
     SubSeq(s, 2 * i - 1, Min(2 * i, Len(s)))]

\* new Uint8Array(hexMatch.map(b => parseInt(b, 16)))
HexMatchDecode(s) == [i \in 1..Len(HexGroups(s)) |-> ToUint8(ParseInt16(HexGroups(s)[i]))]

HexDigitChar(v) == IF v < 10 THEN 48 + v ELSE 87 + v

HexEncode_NoPad(b) ==
  Concat([i \in 1..Len(b) |->
            IF b[i] < 16 THEN <<HexDigitChar(b[i])>>
            ELSE <<HexDigitChar(b[i] \div 16), HexDigitChar(b[i] % 16)>>])

\* bytes.map(b => b.toString(16).padStart(2, '0')).join('')
HexEncode(b) ==
  Concat([i \in 1..Len(b) |-> <<HexDigitChar(b[i] \div 16), HexDigitChar(b[i] % 16)>>])

(***************************************************************************)
(* Base64.                                                                 *)
(***************************************************************************)
\* value of a base64 character, -1 when the code unit is none
B64Val(c) ==
  IF c >= 65 /\ c <= 90 THEN c - 65
  ELSE IF c >= 97 /\ c <= 122 THEN c - 71
  ELSE IF c >= 48 /\ c <= 57 THEN c + 4
  ELSE IF c = 43 THEN 62
  ELSE IF c = 47 THEN 63
  ELSE -1

B64Char(v) ==
  IF v < 26 THEN 65 + v
  ELSE IF v < 52 THEN 71 + v
  ELSE IF v < 62 THEN v - 4
  ELSE IF v = 62 THEN 43
  ELSE 47

Pow2(n) == IF n = 0 THEN 1 ELSE IF n = 2 THEN 4 ELSE IF n = 4 THEN 16
           ELSE IF n = 6 THEN 64 ELSE IF n = 8 THEN 256 ELSE 1024

\* atob: one or two trailing '=' are dropped when the length is a multiple
\* of 4 (white space is outside the model's alphabet)
AtobStrip(s) ==
  IF Len(s) > 0 /\ Len(s) % 4 = 0 /\ s[Len(s)] = 61
  THEN IF s[Len(s) - 1] = 61 THEN SubSeq(s, 1, Len(s) - 2) ELSE SubSeq(s, 1, Len(s) - 1)
  ELSE s

\* atob throws InvalidCharacterError
AtobThrows(s) ==
  \/ Len(AtobStrip(s)) % 4 = 1
  \/ \E i \in 1..Len(AtobStrip(s)) : B64Val(AtobStrip(s)[i]) < 0

\* byte j (from 0) of the sextets v: bits 8j .. 8j+7
SextetByte(v, j) ==
  LET k   == ((8 * j) \div 6) + 1
      off == (8 * j) % 6
      lo  == IF k + 1 <= Len(v) THEN v[k + 1] ELSE 0
  IN  ((v[k] * 64 + lo) \div Pow2(4 - off)) % 256

\* Uint8Array.from(atob(s), c => c.charCodeAt(0)), for s that atob accepts
AtobBytes(s) ==
  LET t == AtobStrip(s)
      v == [i \in 1..Len(t) |-> B64Val(t[i])]
  IN  [j \in 1..((Len(t) * 6) \div 8) |-> SextetByte(v, j - 1)]

\* btoa(String.fromCharCode(...bytes))
Btoa(b) ==
  LET n    == Len(b)
      at(i) == IF i <= n THEN b[i] ELSE 0
      sext(i) == LET k == ((6 * i) \div 8) + 1
                     off == (6 * i) % 8
                 IN  ((at(k) * 256 + at(k + 1)) \div Pow2(10 - off)) % 64
      used == (8 * n + 5) \div 6
  IN  [i \in 1..(4 * ((n + 2) \div 3)) |->
         IF i <= used THEN B64Char(sext(i - 1)) ELSE 61]

\* index of the first '=' in s, Len(s) + 1 when there is none
RECURSIVE FirstPad(_, _)
FirstPad(s, i) ==
  IF i > Len(s) THEN i ELSE IF s[i] = 61 THEN i ELSE FirstPad(s, i + 1)

\* CryptoJS.enc.Base64.parse: stops at the first '=', reads a character
\* outside the alphabet as 0 bits and never throws
CjsBase64Parse(s) ==
  LET L == FirstPad(s, 1) - 1
      v == [i \in 1..L |-> IF B64Val(s[i]) < 0 THEN 0 ELSE B64Val(s[i])]
  IN  [j \in 1..(L - ((L + 3) \div 4)) |-> SextetByte(v, j - 1)]

(***************************************************************************)
(* UTF-8.  Code units are those of the Basic Multilingual Plane; a lone    *)
(* surrogate encodes as U+FFFD.                                            *)
(***************************************************************************)
IsSurrogate(c) == c >= 55296 /\ c <= 57343

Utf8Unit(c) ==
  IF c < 128 THEN <<c>>
  ELSE IF c < 2048 THEN <<192 + (c \div 64), 128 + (c % 64)>>
  ELSE IF IsSurrogate(c) THEN <<239, 191, 189>>
  ELSE <<224 + (c \div 4096), 128 + ((c \div 64) % 64), 128 + (c % 64)>>

\* new TextEncoder().encode(s)
Utf8Encode(s) == Concat([i \in 1..Len(s) |-> Utf8Unit(s[i])])

IsCont(b) == b >= 128 /\ b <= 191

\* number of continuation bytes a lead byte announces, -1 for no lead byte
Utf8Need(b) ==
  IF b >= 194 /\ b <= 223 THEN 1
  ELSE IF b >= 224 /\ b <= 239 THEN 2
  ELSE IF b >= 240 /\ b <= 244 THEN 3
  ELSE -1

\* the range the second byte of a sequence must lie in
Utf8SecondOk(lead, b) ==
  IF lead = 224 THEN b >= 160 /\ b <= 191
  ELSE IF lead = 237 THEN b >= 128 /\ b <= 159
  ELSE IF lead = 240 THEN b >= 144 /\ b <= 191
  ELSE IF lead = 244 THEN b >= 128 /\ b <= 143
  ELSE IsCont(b)

\* number of bytes of the well-formed prefix of the sequence that starts
\* at i (lead byte included)
Utf8Good(b, i) ==
  LET need == Utf8Need(b[i])
      ok2  == i + 1 <= Len(b) /\ Utf8SecondOk(b[i], b[i + 1])
      ok3  == ok2 /\ i + 2 <= Len(b) /\ IsCont(b[i + 2])
      ok4  == ok3 /\ i + 3 <= Len(b) /\ IsCont(b[i + 3])
  IN  IF need < 1 THEN 1
      ELSE IF ~ok2 THEN 1
      ELSE IF need = 1 \/ ~ok3 THEN 2
      ELSE IF need = 2 \/ ~ok4 THEN 3
      ELSE 4

Utf8Complete(b, i) == b[i] < 128 \/ Utf8Good(b, i) = Utf8Need(b[i]) + 1

\* the code units of the complete sequence that starts at i
Utf8Units(b, i) ==
  IF b[i] < 128 THEN <<b[i]>>
  ELSE IF Utf8Need(b[i]) = 1 THEN <<(b[i] - 192) * 64 + (b[i + 1] - 128)>>
  ELSE IF Utf8Need(b[i]) = 2
       THEN <<(b[i] - 224) * 4096 + (b[i + 1] - 128) * 64 + (b[i + 2] - 128)>>
  ELSE LET cp == (b[i] - 240) * 262144 + (b[i + 1] - 128) * 4096
                   + (b[i + 2] - 128) * 64 + (b[i + 3] - 128) - 65536
       IN  <<55296 + (cp \div 1024), 56320 + (cp % 1024)>>

RECURSIVE Utf8DecodeFrom(_, _)
Utf8DecodeFrom(b, i) ==
  IF i > Len(b) THEN <<>>
  ELSE IF Utf8Complete(b, i)
       THEN Utf8Units(b, i) \o Utf8DecodeFrom(b, i + Utf8Good(b, i))
  ELSE <<65533>> \o Utf8DecodeFrom(b, i + Utf8Good(b, i))

\* new TextDecoder().decode(bytes): malformed input becomes U+FFFD, a
\* leading byte order mark is dropped
TextDecode(b) ==
  IF Len(b) >= 3 /\ b[1] = 239 /\ b[2] = 187 /\ b[3] = 191
  THEN Utf8DecodeFrom(b, 4)
  ELSE Utf8DecodeFrom(b, 1)

RECURSIVE Utf8ValidFrom(_, _)
Utf8ValidFrom(b, i) ==
  IF i > Len(b) THEN TRUE
  ELSE Utf8Complete(b, i) /\ Utf8ValidFrom(b, i + Utf8Good(b, i))

\* CryptoJS.enc.Utf8.stringify throws 'Malformed UTF-8 data'
CjsUtf8Throws(b) == ~Utf8ValidFrom(b, 1)

(***************************************************************************)
(* Values, results and the trace of one call.                              *)
(***************************************************************************)
\* e names the encoder that wrote a string ("" for a value of the caller)
Undefined == [t |-> "undefined", v |-> <<>>, e |-> ""]
Str(s) == [t |-> "string", v |-> s, e |-> ""]
Text(s, e) == [t |-> "string", v |-> s, e |-> e]
U8(b) == [t |-> "Uint8Array", v |-> b, e |-> ""]
Buf(b) == [t |-> "ArrayBuffer", v |-> b, e |-> ""]
Arr(b) == [t |-> "Array", v |-> b, e |-> ""]
Other == [t |-> "other", v |-> <<>>, e |-> ""]
\* true and false: v is <<1>> and <<0>>
Bool(b) == [t |-> "boolean", v |-> IF b THEN <<1>> ELSE <<0>>, e |-> ""]

\* an effect of a call: a backend invocation or a console.warn
Ev(name) == [ev |-> name, alg |-> "", msg |-> ""]
Warn_AsLog(a, m) == [ev |-> "log", alg |-> a, msg |-> m]

\* console.warn of a downgrade: the algorithm named, and the reason given
Warn(a, m) == [ev |-> "warn", alg |-> a, msg |-> m]

\* what an enc call handed to the key derivation and the cipher of the
\* primary (p) and of the fallback (f) engine; iters is -1 before the call.
\* pw: the password bytes; bits: the key length asked for (fbits is -1 for
\* NaN); pname: the name the key is derived for; pcipher: the name given to
\* subtle.encrypt / subtle.decrypt; fmode: the CryptoJS mode selected
NoUsed == [psalt |-> Undefined, piv |-> Undefined, piters |-> -1,
           fsalt |-> Undefined, fiv |-> Undefined, fiters |-> -1, fbits |-> -1,
           ppw |-> Undefined, pbits |-> -1, pname |-> "", pcipher |-> "",
           fpw |-> Undefined, fmode |-> ""]

Ok(val, tr) == [kind |-> "ok", err |-> "", val |-> val, tr |-> tr, used |-> NoUsed]
Throw(err, tr) ==
  [kind |-> "error", err |-> err, val |-> Undefined, tr |-> tr, used |-> NoUsed]

Falsy_EmptyBuffer(x) == x.t = "undefined" \/ x.v = <<>>

\* !x of an input value: undefined and '' are falsy, every object is truthy
Falsy(x) == x.t = "undefined" \/ (x.t = "string" /\ x.v = <<>>)

(***************************************************************************)
(* The runtime: which globals exist.                                       *)
(***************************************************************************)
Envs ==
  {e \in [window : BOOLEAN, crypto : BOOLEAN, subtle : BOOLEAN, grv : BOOLEAN] :
     /\ e.crypto => e.window
     /\ e.subtle => e.crypto
     /\ e.grv => e.crypto}

\* bytes a random source returns: a draw is a seed, every byte derived from it
RandSeeds == {65, 200}
RandomBytes(n, seed) == [i \in 1..n |-> seed]

(***************************************************************************)
(* rand                                                                    *)
(***************************************************************************)
ValidLength_ZeroAllowed(len) == len.int /\ len.n >= 0

\* Number.isInteger(length) && length > 0
ValidLength(len) == len.int /\ len.n > 0

RandFormat(bytes, o) ==
  IF o.raw THEN U8(bytes)
  ELSE IF o.base64 THEN Text(Btoa(bytes), "base64")
  ELSE IF o.hex THEN Text(HexEncode(bytes), "hex")
  ELSE Text(Btoa(bytes), "base64")

RandHasPrimary(env) == env.window /\ env.crypto /\ env.grv

\* pfail: getRandomValues throws (QuotaExceededError, for a request of more
\* than 65536 bytes); the call is in no try block
rand(o, env, seed, pfail, ffail) ==
  IF ~ValidLength(o.length) THEN Throw("InvalidLength", <<>>)
  ELSE IF RandHasPrimary(env)
       THEN IF pfail THEN Throw("QuotaExceededError", <<Ev("getRandomValues")>>)
            ELSE Ok(RandFormat(RandomBytes(o.length.n, seed), o), <<Ev("getRandomValues")>>)
  ELSE LET tr == <<Warn("", "unavailable"), Ev("WordArray.random")>>
       IN  IF ffail THEN Throw("FallbackError", tr)
           ELSE Ok(RandFormat(RandomBytes(o.length.n, seed), o), tr)

(***************************************************************************)
(* dgst                                                                    *)
(***************************************************************************)
\* algorithm.toUpperCase(), on the names of the model
ToUpperCase(a) ==
  IF a = "sha256" THEN "SHA256"
  ELSE IF a = "sha-1" THEN "SHA-1"
  ELSE IF a = "md5" THEN "MD5"
  ELSE IF a = "foo" THEN "FOO"
  ELSE a

\* the webCryptoAlgo table: "" stands for null (MD5) and for a missing key
WebCryptoTable(u) ==
  IF u \in {"SHA-1", "SHA1"} THEN "SHA-1"
  ELSE IF u \in {"SHA-256", "SHA256"} THEN "SHA-256"
  ELSE IF u \in {"SHA-384", "SHA384"} THEN "SHA-384"
  ELSE IF u \in {"SHA-512", "SHA512"} THEN "SHA-512"
  ELSE ""

\* {...}[algorithm.toUpperCase()] || algorithm
WebCryptoAlgo(a) ==
  IF WebCryptoTable(ToUpperCase(a)) # "" THEN WebCryptoTable(ToUpperCase(a)) ELSE a

\* the cryptoJSAlgo table, with its || CryptoJS.algo.SHA256
CryptoJSAlgo(a) ==
  IF WebCryptoTable(ToUpperCase(a)) # "" THEN WebCryptoTable(ToUpperCase(a))
  ELSE IF ToUpperCase(a) = "MD5" THEN "MD5"
  ELSE "SHA-256"

\* the digests crypto.subtle computes
SubtleDigests == {"SHA-1", "SHA-256", "SHA-384", "SHA-512"}

DigestLen(h) ==
  IF h = "SHA-1" THEN 20
  ELSE IF h = "SHA-256" THEN 32
  ELSE IF h = "SHA-384" THEN 48
  ELSE IF h = "SHA-512" THEN 64
  ELSE 16

\* the hash function h of either engine, as a function of h and the data
Digest(h, data) ==
  [i \in 1..DigestLen(h) |-> (SumSeq(data) + Len(data) + DigestLen(h) + i) % 256]

DgstNormalize(input) ==
  IF input.t = "string" THEN Utf8Encode(input.v) ELSE input.v

\* hash.toString(base64 ? Base64 : hex ? Hex : Latin1) and the returns
\* after it; raw is [...].buffer of a plain array, which is undefined
CryptoJSHashFormat(hash, o) ==
  IF o.raw THEN Undefined
  ELSE IF o.base64 THEN Text(Btoa(hash), "base64")
  ELSE Text(HexEncode(hash), "hex")

\* lib.hashLookup: whether CryptoJS.algo[cryptoJSAlgo.name || cryptoJSAlgo]
\* resolves.  crypto-js gives its hasher objects no `name`, so the key is the
\* object itself and `.create` is read from undefined; the other outcome is
\* that of a build whose hashers carry their name.
cryptoJSHash(data, o, lib, ffail, tr) ==
  LET tr2 == Append(tr, Ev("CryptoJS.hash"))
  IN  IF ~lib.hashLookup THEN Throw("TypeError", tr2)
      ELSE IF ffail THEN Throw("FallbackError", tr2)
      ELSE Ok(CryptoJSHashFormat(Digest(CryptoJSAlgo(o.algorithm), data), o), tr2)

DgstPrimaryFormat(hash, o) ==
  IF o.raw THEN Buf(hash)
  ELSE IF o.base64 THEN Text(Btoa(hash), "base64")
  ELSE IF o.hex THEN Text(HexEncode(hash), "hex")
  ELSE Arr(hash)

DgstHasPrimary(env) == env.window /\ env.crypto /\ env.subtle

\* webCryptoAlgo && webCryptoAlgo !== 'MD5'
DgstUsesSubtle(a) == WebCryptoAlgo(a) # "" /\ WebCryptoAlgo(a) # "MD5"

dgst(o, env, pfail, ffail, lib) ==
  IF Falsy(o.input) THEN Throw("InputRequired", <<>>)
  ELSE IF o.input.t \notin {"string", "Uint8Array", "ArrayBuffer"}
       THEN Throw("UnsupportedInputType", <<>>)
  ELSE
    LET data == DgstNormalize(o.input)
        wa   == WebCryptoAlgo(o.algorithm)
    IN  IF DgstHasPrimary(env)
        THEN IF DgstUsesSubtle(o.algorithm)
             THEN IF wa \in SubtleDigests /\ ~pfail
                  THEN Ok(DgstPrimaryFormat(Digest(wa, data), o), <<Ev("subtle.digest")>>)
                  ELSE cryptoJSHash(data, o, lib, ffail,
                         <<Ev("subtle.digest"),
                           Warn(o.algorithm,
                                IF wa \in SubtleDigests THEN "OperationError"
                                ELSE "NotSupportedError")>>)
             ELSE cryptoJSHash(data, o, lib, ffail,
                    <<Warn(o.algorithm, "not supported by Web Crypto")>>)
        ELSE cryptoJSHash(data, o, lib, ffail, <<Warn("", "unavailable")>>)

(***************************************************************************)
(* enc: validation, input decoding, algorithm parsing                      *)
(***************************************************************************)
\* algorithm.split('-'), on the names of the model
AlgSplit(a) ==
  IF a = "AES-256-CBC" THEN <<"AES", "256", "CBC">>
  ELSE IF a = "AES-128-GCM" THEN <<"AES", "128", "GCM">>
  ELSE IF a = "AES-GCM" THEN <<"AES", "GCM">>
  ELSE IF a = "AES-CBC" THEN <<"AES", "CBC">>
  ELSE <<a>>

\* parseInt(algorithm.match(/(\d+)/)?.[0]): the first run of digits, -1 for NaN
AlgDigits(a) ==
  IF a = "AES-256-CBC" THEN 256
  ELSE IF a = "AES-128-GCM" THEN 128
  ELSE -1

\* const [cipher, mode] = algorithm.split('-'): the second segment
AlgMode(a) == IF Len(AlgSplit(a)) >= 2 THEN AlgSplit(a)[2] ELSE "undefined"

\* parseInt(...) || 256
KeyLength(a) == IF AlgDigits(a) <= 0 THEN 256 ELSE AlgDigits(a)

IsGCM(a) == AlgMode(a) = "GCM"

EncValidate_NoIvCheck(o) ==
  IF Falsy(o.input) THEN "InputRequired"
  ELSE IF o.password = <<>> THEN "MissingCredential"
  ELSE ""

\* the checks at the head of enc; "" when they pass
EncValidate(o) ==
  IF Falsy(o.input) THEN "InputRequired"
  ELSE IF o.decrypt /\ (o.password = <<>> \/ Falsy(o.iv)) THEN "MissingCredential"
  ELSE IF ~o.decrypt /\ o.password = <<>> THEN "MissingCredential"
  ELSE ""

\* decoding of a string by the flags, as enc does it for input, salt and iv:
\* [err |-> "" or the error, bytes |-> the bytes]
EncDecodeText(s, o) ==
  IF o.base64
  THEN IF AtobThrows(s) THEN [err |-> "Base64DecodeFailed", bytes |-> <<>>]
       ELSE [err |-> "", bytes |-> AtobBytes(s)]
  ELSE IF o.hex
       THEN IF HexGroups(s) = <<>> THEN [err |-> "InvalidHex", bytes |-> <<>>]
            ELSE [err |-> "", bytes |-> HexMatchDecode(s)]
  ELSE [err |-> "", bytes |-> Utf8Encode(s)]

\* normalisation of input
EncNormalize(o) ==
  IF o.input.t = "string" THEN EncDecodeText(o.input.v, o)
  ELSE IF o.input.t \in {"Uint8Array", "ArrayBuffer"} THEN [err |-> "", bytes |-> o.input.v]
  ELSE [err |-> "UnsupportedInputType", bytes |-> <<>>]

(***************************************************************************)
(* The engines' PBKDF2 and AES.  Both engines compute the same functions;  *)
(* a key is the tuple of what it was derived from.                         *)
(***************************************************************************)
Pbkdf2(pw, salt, iters, bits, name) ==
  [pw |-> pw, salt |-> salt, iters |-> iters, hash |-> "SHA-256", bits |-> bits,
   name |-> name]

KeyTag(key) ==
  (SumSeq(key.pw) + 3 * SumSeq(key.salt) + 5 * Len(key.salt) + 7 * (key.iters % 251)
     + key.bits) % 256

\* PKCS#7 padding to the 16-byte block
Pkcs7(data) == data \o [i \in 1..(16 - (Len(data) % 16)) |-> 16 - (Len(data) % 16)]

AesStream(key, iv, i) == (KeyTag(key) + SumSeq(iv) + i) % 256

\* CBC pads, the other modes do not
AesEncrypt(mode, key, iv, data) ==
  LET p == IF mode = "CBC" THEN Pkcs7(data) ELSE data
  IN  [i \in 1..Len(p) |-> (p[i] + AesStream(key, iv, i)) % 256]

AesRaw(key, iv, ct) == [i \in 1..Len(ct) |-> (ct[i] + 256 - AesStream(key, iv, i)) % 256]

\* the padding of a decrypted CBC text is well formed
PadOk(p) ==
  /\ Len(p) > 0
  /\ Len(p) % 16 = 0
  /\ p[Len(p)] >= 1
  /\ p[Len(p)] <= 16
  /\ \A i \in (Len(p) - p[Len(p)] + 1)..Len(p) : p[i] = p[Len(p)]

(***************************************************************************)
(* enc: the Web Crypto path (the try block)                                *)
(***************************************************************************)
\* the algorithm names crypto.subtle knows for encrypt and decrypt
SubtleCiphers == {"AES-CBC", "AES-GCM", "AES-CTR"}

\* the name enc gives deriveKey
DeriveName(a) == IF IsGCM(a) THEN "AES-GCM" ELSE "AES-CBC"

\* the name enc gives subtle.encrypt and subtle.decrypt
CipherName(a) == IF IsGCM(a) THEN "GCM" ELSE "CBC"

\* salt or iv on the Web Crypto path: [err, bytes, tr].  x.substring is
\* called on the value, so anything but a string throws a TypeError.
PrimaryResolve(x, o, env, seed) ==
  IF ~Falsy(x)
  THEN IF x.t # "string" THEN [err |-> "TypeError", bytes |-> <<>>, tr |-> <<>>]
       ELSE [err |-> EncDecodeText(x.v, o).err, bytes |-> EncDecodeText(x.v, o).bytes,
             tr |-> <<>>]
  ELSE IF env.grv
       THEN [err |-> "", bytes |-> RandomBytes(16, seed), tr |-> <<Ev("getRandomValues")>>]
  ELSE [err |-> "TypeError", bytes |-> <<>>, tr |-> <<>>]

\* subtle.deriveKey rejects
DeriveKeyRejects(o, pfail) ==
  \/ pfail = "deriveKey"
  \/ o.iterations = 0
  \/ KeyLength(o.algorithm) \notin {128, 192, 256}

\* subtle.encrypt / subtle.decrypt reject
SubtleCipherRejects(o, key, iv, data, pfail) ==
  \/ pfail = "cipher"
  \/ CipherName(o.algorithm) \notin SubtleCiphers
  \/ CipherName(o.algorithm) # key.name
  \/ (key.name = "AES-CBC" /\ Len(iv) # 16)
  \/ (o.decrypt /\ key.name = "AES-CBC" /\ ~PadOk(AesRaw(key, iv, data)))

SubtleCipher(o, key, iv, data) ==
  LET mode == IF key.name = "AES-CBC" THEN "CBC" ELSE "GCM"
  IN  IF ~o.decrypt THEN AesEncrypt(mode, key, iv, data)
      ELSE IF mode = "CBC"
           THEN SubSeq(AesRaw(key, iv, data), 1,
                       Len(data) - AesRaw(key, iv, data)[Len(data)])
      ELSE AesRaw(key, iv, data)

\* formatData
FormatData(bytes, o) ==
  IF o.base64 THEN Text(Btoa(bytes), "base64")
  ELSE IF o.hex THEN Text(HexEncode(bytes), "hex")
  ELSE Text(TextDecode(bytes), "utf8")

EncPrimaryResult(result, iv, salt, o) ==
  IF o.raw THEN [data |-> U8(result), iv |-> U8(iv), salt |-> U8(salt)]
  ELSE [data |-> FormatData(result, o), iv |-> FormatData(iv, o),
        salt |-> FormatData(salt, o)]

\* the try block: kind "ok" with the result, or kind "caught" with the
\* message handed to the catch clause; tr and used are those of the attempt
EncPrimary(o, data, env, seeds, pfail) ==
  LET s    == PrimaryResolve(o.salt, o, env, seeds.ps)
      v    == PrimaryResolve(o.iv, o, env, seeds.pi)
      key  == Pbkdf2(Utf8Encode(o.password), s.bytes, o.iterations,
                     KeyLength(o.algorithm), DeriveName(o.algorithm))
      tr1  == s.tr
      tr2  == Append(tr1, Ev("subtle.importKey"))
      tr3  == Append(tr2, Ev("subtle.deriveKey"))
      tr4  == tr3 \o v.tr
      tr5  == Append(tr4, Ev(IF o.decrypt THEN "subtle.decrypt" ELSE "subtle.encrypt"))
      u1   == [NoUsed EXCEPT !.psalt = U8(s.bytes), !.piters = o.iterations,
                             !.ppw = U8(Utf8Encode(o.password)),
                             !.pbits = KeyLength(o.algorithm),
                             !.pname = DeriveName(o.algorithm)]
      u2   == [u1 EXCEPT !.piv = U8(v.bytes), !.pcipher = CipherName(o.algorithm)]
      caught(msg, tr, used) ==
        [kind |-> "caught", err |-> msg, val |-> Undefined, tr |-> tr, used |-> used]
  IN  IF s.err # "" THEN caught(s.err, tr1, NoUsed)
      ELSE IF pfail = "importKey" THEN caught("OperationError", tr2, u1)
      ELSE IF DeriveKeyRejects(o, pfail) THEN caught("OperationError", tr3, u1)
      ELSE IF v.err # "" THEN caught(v.err, tr4, u1)
      ELSE IF SubtleCipherRejects(o, key, v.bytes, data, pfail)
           THEN caught("NotSupportedError", tr5, u2)
      ELSE [kind |-> "ok", err |-> "",
            val |-> EncPrimaryResult(SubtleCipher(o, key, v.bytes, data), v.bytes,
                                     s.bytes, o),
            tr |-> tr5, used |-> u2]

(***************************************************************************)
(* enc: the CryptoJS path.  A WordArray is [w |-> its bytes, frac |-> its  *)
(* sigBytes is not a whole number]: Hex.parse sets sigBytes to half the    *)
(* length of the text, and the last byte of w is then the half one.        *)
(***************************************************************************)
WA(b) == [w |-> b, frac |-> FALSE]

\* CryptoJS.enc.Hex.parse: parseInt of every pair, NaN shifted in as 0
CjsHexParse(s) == [w |-> HexMatchDecode(s), frac |-> Len(s) % 2 = 1]

\* new Uint8Array(wordArray.sigBytes): that many zero bytes
ZeroedCopy(wa) == U8(Zeros(IF wa.frac THEN Len(wa.w) - 1 ELSE Len(wa.w)))

\* the decimal digits of a byte
Decimal(n) ==
  IF n < 10 THEN <<48 + n>>
  ELSE IF n < 100 THEN <<48 + (n \div 10), 48 + (n % 10)>>
  ELSE <<48 + (n \div 100), 48 + ((n \div 10) % 10), 48 + (n % 10)>>

\* String(uint8Array): the elements in decimal, joined by commas
RECURSIVE JoinDecimal(_)
JoinDecimal(b) ==
  IF b = <<>> THEN <<>>
  ELSE IF Len(b) = 1 THEN Decimal(b[1])
  ELSE Decimal(b[1]) \o <<44>> \o JoinDecimal(Tail(b))

\* parse of a string by the flags: base64 ? Base64.parse : hex ? Hex.parse : Utf8.parse
CjsParseText(s, o) ==
  IF o.base64 THEN WA(CjsBase64Parse(s))
  ELSE IF o.hex THEN CjsHexParse(s)
  ELSE WA(Utf8Encode(s))

\* the same parsers handed a Uint8Array: Base64.parse reads charCodeAt from
\* the second element on and Hex.parse substr from the first, which a typed
\* array does not have; Utf8.parse converts it to a string
CjsParseBytesThrows(b, o) ==
  IF o.base64 THEN Len(b) >= 2 ELSE IF o.hex THEN Len(b) >= 1 ELSE FALSE

CjsParseBytes(b, o) ==
  IF o.base64 \/ o.hex THEN WA(<<>>) ELSE WA(Utf8Encode(JoinDecimal(b)))

\* finalSalt: [wa, tr]
FallbackSalt(o, seed) ==
  IF Falsy(o.salt)
  THEN [wa |-> WA(RandomBytes(16, seed)), tr |-> <<Ev("WordArray.random")>>]
  ELSE IF o.salt.t = "Uint8Array" THEN [wa |-> WA(o.salt.v), tr |-> <<>>]
  ELSE IF o.salt.t = "string" THEN [wa |-> CjsParseText(o.salt.v, o), tr |-> <<>>]
  ELSE [wa |-> WA(RandomBytes(16, seed)), tr |-> <<Ev("WordArray.random")>>]

FallbackIV_Fresh(o, seed) ==
  [err |-> "", wa |-> WA(RandomBytes(16, seed)), tr |-> <<Ev("WordArray.random")>>]

\* ivBytes: [err, wa, tr]
FallbackIV(o, seed) ==
  IF Falsy(o.iv)
  THEN [err |-> "", wa |-> WA(RandomBytes(16, seed)), tr |-> <<Ev("WordArray.random")>>]
  ELSE IF o.iv.t = "string" THEN [err |-> "", wa |-> CjsParseText(o.iv.v, o), tr |-> <<>>]
  ELSE IF CjsParseBytesThrows(o.iv.v, o) THEN [err |-> "TypeError", wa |-> WA(<<>>), tr |-> <<>>]
  ELSE [err |-> "", wa |-> CjsParseBytes(o.iv.v, o), tr |-> <<>>]

\* decrypt reads data, a Uint8Array, as base64 ? Base64 : hex ? Hex : Base64
CiphertextParseThrows(data, o) ==
  IF o.base64 THEN Len(data) >= 2 ELSE IF o.hex THEN Len(data) >= 1 ELSE Len(data) >= 2

\* CryptoJS.AES.decrypt: the padding is removed unchecked
CjsAesDecrypt(key, iv, ct) ==
  LET p == AesRaw(key, iv, ct)
      n == IF Len(p) = 0 THEN 0 ELSE p[Len(p)]
  IN  IF n >= Len(p) THEN <<>> ELSE SubSeq(p, 1, Len(p) - n)

\* the encoder the flags select: base64 ? Base64 : hex ? Hex : Utf8
FlagEncoder(o) == IF o.base64 THEN "base64" ELSE IF o.hex THEN "hex" ELSE "utf8"

\* wordArray.toString(encoder): [err, s]
CjsToString(wa, o) ==
  IF o.base64 THEN [err |-> "", s |-> Btoa(wa.w)]
  ELSE IF o.hex THEN [err |-> "", s |-> HexEncode(wa.w)]
  ELSE IF CjsUtf8Throws(wa.w) THEN [err |-> "MalformedUtf8", s |-> <<>>]
  ELSE [err |-> "", s |-> Utf8DecodeFrom(wa.w, 1)]

\* cipherParams.toString(encoder): the encoder's stringify is applied to
\* the CipherParams object, which has no words, no sigBytes and no clamp.
\* Base64.stringify calls clamp and throws; Hex and Utf8 see no bytes.
CipherParamsToString(o) ==
  IF o.base64 THEN [err |-> "TypeError", s |-> <<>>] ELSE [err |-> "", s |-> <<>>]

\* the object returned: salt only when the caller gave one (and, as text,
\* only when that text is not empty)
FallbackResult(dataOut, ivOut, saltOut, o) ==
  [data |-> dataOut, iv |-> ivOut,
   salt |-> IF Falsy(o.salt) \/ Falsy(saltOut) THEN Undefined ELSE saltOut]

\* cryptoJSMode: CBC unless the second segment of the name is GCM or CTR
CryptoJSMode(a) ==
  IF AlgMode(a) = "GCM" THEN "GCM" ELSE IF AlgMode(a) = "CTR" THEN "CTR" ELSE "CBC"

\* CryptoJS.mode.GCM is not defined: the cipher is created with mode
\* undefined and throws
CjsModeMissing(a) == CryptoJSMode(a) = "GCM"

cryptoJSEncrypt(data, o, seeds, tr0, used0) ==
  LET s     == FallbackSalt(o, seeds.fs)
      v     == FallbackIV(o, seeds.fi)
      iters == IF o.iterations = 0 THEN 10000 ELSE o.iterations
      key   == Pbkdf2(Utf8Encode(o.password), s.wa.w, iters, AlgDigits(o.algorithm), "")
      tr1   == Append(tr0 \o s.tr, Ev("CryptoJS.PBKDF2"))
      tr2   == tr1 \o v.tr
      tr3   == Append(tr2, Ev(IF o.decrypt THEN "CryptoJS.AES.decrypt"
                              ELSE "CryptoJS.AES.encrypt"))
      u1    == [used0 EXCEPT !.fsalt = U8(s.wa.w), !.fiters = iters,
                             !.fbits = AlgDigits(o.algorithm),
                             !.fpw = U8(Utf8Encode(o.password))]
      u2    == [u1 EXCEPT !.fiv = U8(v.wa.w), !.fmode = CryptoJSMode(o.algorithm)]
      fail(msg, tr, used) ==
        [kind |-> "error", err |-> msg, val |-> Undefined, tr |-> tr, used |-> used]
      done(val) == [kind |-> "ok", err |-> "", val |-> val, tr |-> tr3, used |-> u2]
      plain == CjsAesDecrypt(key, v.wa.w, <<>>)
      ct    == AesEncrypt("CBC", key, v.wa.w, data)
      ivS   == CjsToString(v.wa, o)
      saltS == CjsToString(s.wa, o)
  IN  IF o.decrypt /\ CiphertextParseThrows(data, o) THEN fail("TypeError", tr1, u1)
      ELSE IF v.err # "" THEN fail(v.err, tr2, u1)
      ELSE IF CjsModeMissing(o.algorithm) THEN fail("TypeError", tr3, u2)
      ELSE IF o.raw
           THEN IF o.decrypt /\ CjsUtf8Throws(plain) THEN fail("MalformedUtf8", tr3, u2)
                ELSE done(FallbackResult(
                            ZeroedCopy(WA(IF o.decrypt THEN plain ELSE ct)),
                            ZeroedCopy(v.wa), ZeroedCopy(s.wa), o))
      ELSE IF o.decrypt /\ CjsUtf8Throws(plain) THEN fail("MalformedUtf8", tr3, u2)
      ELSE IF ~o.decrypt /\ CipherParamsToString(o).err # ""
           THEN fail(CipherParamsToString(o).err, tr3, u2)
      ELSE IF ivS.err # "" THEN fail(ivS.err, tr3, u2)
      ELSE IF ~Falsy(o.salt) /\ saltS.err # "" THEN fail(saltS.err, tr3, u2)
      ELSE done(FallbackResult(
                  IF o.decrypt THEN Text(Utf8DecodeFrom(plain, 1), "utf8")
                  ELSE Text(CipherParamsToString(o).s, FlagEncoder(o)),
                  Text(ivS.s, FlagEncoder(o)), Text(saltS.s, FlagEncoder(o)), o))

(***************************************************************************)
(* enc                                                                     *)
(***************************************************************************)
EncHasPrimary(env) == env.window /\ env.crypto /\ env.subtle

\* what the catch clause and the else branch hand to cryptoJSEncrypt
FallbackOptions(o, attempt) == o

enc(o, env, seeds, pfail) ==
  IF EncValidate(o) # "" THEN Throw(EncValidate(o), <<>>)
  ELSE IF EncNormalize(o).err # "" THEN Throw(EncNormalize(o).err, <<>>)
  ELSE
    LET data == EncNormalize(o).bytes
        att  == EncPrimary(o, data, env, seeds, pfail)
    IN  IF EncHasPrimary(env)
        THEN IF att.kind = "ok" THEN att
             ELSE cryptoJSEncrypt(data, FallbackOptions(o, att), seeds,
                                  Append(att.tr, Warn(o.algorithm, att.err)), att.used)
        ELSE cryptoJSEncrypt(data, o, seeds, <<Warn("", "unavailable")>>, NoUsed)

(***************************************************************************)
(* The codec of enc taken alone: formatData, then the decoder of input     *)
(***************************************************************************)
codecRoundTrip(b, o) ==
  LET text == FormatData(b, o).v
      back == EncDecodeText(text, o)
  IN  IF back.err # "" THEN Throw(back.err, <<>>) ELSE Ok(U8(back.bytes), <<>>)

(***************************************************************************)
(* isWebCryptoAvailable: a chain of &&, whose value is its first falsy     *)
(* operand, or else its last operand                                       *)
(***************************************************************************)
isWebCryptoAvailable(env) ==
  IF ~env.window THEN Bool(FALSE)
  ELSE IF ~env.crypto THEN Undefined
  ELSE IF ~env.subtle THEN Undefined
  ELSE Bool(env.grv)

(***************************************************************************)
(* req: the subject is parsed into attributes, which node-forge encodes    *)
(* and signs with a fresh key pair                                         *)
(***************************************************************************)
\* s.split(sep): the pieces between the separators, empty ones included
RECURSIVE SplitFrom(_, _, _, _)
SplitFrom(s, sep, i, cur) ==
  IF i > Len(s) THEN <<cur>>
  ELSE IF s[i] = sep THEN <<cur>> \o SplitFrom(s, sep, i + 1, <<>>)
  ELSE SplitFrom(s, sep, i + 1, Append(cur, s[i]))

Split(s, sep) == SplitFrom(s, sep, 1, <<>>)

\* key.toUpperCase()
UpperText(s) == [i \in 1..Len(s) |-> IF s[i] >= 97 /\ s[i] <= 122 THEN s[i] - 32 ELSE s[i]]

\* const [key, value] = attr.split('='); if (key && value) acc.push(...)
ReduceAttrs(segs) ==
  LET pair(seg) == Split(seg, 61)
      keep(seg) == pair(seg)[1] # <<>> /\ Len(pair(seg)) >= 2 /\ pair(seg)[2] # <<>>
      F[i \in 0..Len(segs)] ==
        IF i = 0 THEN <<>>
        ELSE IF keep(segs[i])
             THEN Append(F[i - 1], [shortName |-> UpperText(pair(segs[i])[1]),
                                    value |-> pair(segs[i])[2]])
        ELSE F[i - 1]
  IN  F[Len(segs)]

\* subject.split('/').slice(1).reduce(...)
ParseSubject(s) == ReduceAttrs(Tail(Split(s, 47)))

\* the short names node-forge resolves to an attribute type: C, CN, E, L, O,
\* OU, ST; setSubject throws for an attribute with any other
ForgeShortNames == {<<67>>, <<67, 78>>, <<69>>, <<76>>, <<79>>, <<79, 85>>, <<83, 84>>}

\* kfail: key generation or signing throws
req(o, kfail) ==
  IF Falsy(o.subject) \/ o.subject.t # "string" THEN Throw("InvalidSubject", <<>>)
  ELSE LET attrs == ParseSubject(o.subject.v)
       IN  IF kfail THEN Throw("RequestGenerationFailed", <<Ev("forge.generateKeyPair")>>)
           ELSE IF \E i \in 1..Len(attrs) : attrs[i].shortName \notin ForgeShortNames
                THEN Throw("RequestGenerationFailed",
                           <<Ev("forge.generateKeyPair"), Ev("forge.setSubject")>>)
           ELSE Ok([t |-> "csr", v |-> attrs, e |-> ""],
                   <<Ev("forge.generateKeyPair"), Ev("forge.setSubject"), Ev("forge.sign")>>)

(***************************************************************************)
(* parseCSR.  A request text is [armored: it has the PEM header and        *)
(* footer, wellFormed: its body decodes to a certification request, sig:   *)
(* what verifying its self-signature does, attrs: its subject].            *)
(***************************************************************************)
\* base64 ? the text wrapped in header and footer : the text itself; a body
\* wrapped twice is no PEM message
PemArmored(csr, base64) == IF base64 THEN ~csr.armored ELSE csr.armored

\* forge.pki.certificationRequestFromPem throws
FromPemThrows(csr, base64) == ~PemArmored(csr, base64) \/ ~csr.wellFormed

\* csr.verify() returns true or false, or throws; its value is dropped
parseCSR(csr, base64) ==
  IF FromPemThrows(csr, base64)
  THEN Throw("RequestParsingFailed", <<Ev("forge.certificationRequestFromPem")>>)
  ELSE LET tr == <<Ev("forge.certificationRequestFromPem"), Ev("csr.verify")>>
       IN  IF csr.sig = "throws" THEN Throw("RequestParsingFailed", tr)
           ELSE Ok([t |-> "csrDetails", v |-> csr.attrs, e |-> ""], tr)

(***************************************************************************)
(* Inputs of the calls.                                                    *)
(***************************************************************************)
Flags == [base64 : BOOLEAN, hex : BOOLEAN, raw : BOOLEAN]

\* length: an integer, or a number that is none (1.5, NaN, '8')
Lengths == {[int |-> TRUE, n |-> k] : k \in (-1)..MaxLength} \cup {[int |-> FALSE, n |-> 1]}

RandOptions == {[length |-> l, base64 |-> f.base64, hex |-> f.hex, raw |-> f.raw] :
                  l \in Lengths, f \in Flags}

DgstAlgorithms == {"SHA-1", "sha256", "SHA-512", "MD5", "md5", "foo"}

\* 'a', U+00E9
DgstInputs == {Undefined, Str(<<>>), Str(<<97>>), Str(<<233>>), U8(<<>>), U8(<<1, 2>>),
               Buf(<<>>), Other}

DgstOptions == {[algorithm |-> a, input |-> i, base64 |-> f.base64, hex |-> f.hex,
                 raw |-> f.raw] : a \in DgstAlgorithms, i \in DgstInputs, f \in Flags}

Libs == [hashLookup : BOOLEAN]

EncAlgorithms == {"AES-256-CBC", "AES-128-GCM", "AES-GCM", "AES-CBC"}

\* '0a' is base64 and hexadecimal text, 'z' is neither
EncInputs == {Undefined, Str(<<48, 97>>), Str(<<122>>), U8(<<>>), U8(<<7>>), U8(<<1, 2>>),
              Other}

\* absent, or 'p'
Passwords == {<<>>, <<112>>}

SaltValues == {Undefined, Str(<<48, 97>>), Str(<<122>>)}

Iterations == {0, 10000}

EncOptions ==
  {[algorithm |-> a, input |-> i, decrypt |-> d, password |-> p, salt |-> s,
    iterations |-> n, iv |-> v, base64 |-> f.base64, hex |-> f.hex, raw |-> f.raw] :
     a \in EncAlgorithms, i \in EncInputs, d \in BOOLEAN, p \in Passwords,
     s \in SaltValues, n \in Iterations, v \in SaltValues, f \in Flags}

\* the draws of the two random sources during one call: salt and iv of the
\* Web Crypto path (ps, pi) and of the CryptoJS path (fs, fi)
Seeds ==
  {[ps |-> 65, pi |-> 65, fs |-> 65, fi |-> 65],
   [ps |-> 200, pi |-> 65, fs |-> 65, fi |-> 200],
   [ps |-> 65, pi |-> 200, fs |-> 200, fi |-> 65]}

\* the step of the Web Crypto path that fails at run time, if any
PFails(env) ==
  IF env.window /\ env.crypto /\ env.subtle
  THEN {"none", "importKey", "deriveKey", "cipher"} ELSE {"none"}

\* segments of a subject over '=', 'C' and 'a'
Segments == UNION {[1..k -> {61, 67, 97}] : k \in 0..MaxSegLen}

\* subjects: absent, empty, without a '/', and '/' before each of one or two
\* segments
Subjects ==
  {Undefined, Str(<<>>), Str(<<67, 61, 97>>)}
    \cup {Str(<<47>> \o a) : a \in Segments}
    \cup {Str(<<47>> \o a \o <<47>> \o b) : a \in Segments, b \in Segments}

\* sig: the self-signature verifies, does not match, or cannot be checked
CSRs ==
  [armored : BOOLEAN, wellFormed : BOOLEAN, sig : {"valid", "mismatch", "throws"},
   attrs : {<<>>, <<[shortName |-> <<67>>, value |-> <<97>>]>>}]

\* byte sequences for the codec: NUL, 'A', the bytes of U+00E9 (C3 A9) and
\* of the byte order mark (EF BB BF), 0xFF
CodecBytes ==
  UNION {[1..k -> {0, 65, 169, 187, 191, 195, 239, 255}] : k \in 0..MaxCodecLen}

CodecFlags == [base64 : BOOLEAN, hex : BOOLEAN]

NoCall == [op |-> "none"]
NoOut == [kind |-> "none", err |-> "", val |-> Undefined, used |-> NoUsed]

(***************************************************************************)
(* The state machine: a caller makes one call at a time; the operations    *)
(* keep nothing between calls.                                             *)
(***************************************************************************)
Init ==
  /\ pc = "idle"
  /\ call = NoCall
  /\ out = NoOut
  /\ trace = <<>>
  /\ prev = NoCall

Finish(c, r) ==
  /\ pc' = "done"
  /\ call' = c
  /\ out' = [kind |-> r.kind, err |-> r.err, val |-> r.val, used |-> r.used]
  /\ trace' = r.tr

Rand ==
  /\ pc = "idle"
  /\ \E o \in RandOptions, env \in Envs, seed \in RandSeeds, pfail \in BOOLEAN,
        ffail \in BOOLEAN :
       Finish([op |-> "rand", o |-> o, env |-> env], rand(o, env, seed, pfail, ffail))
  /\ UNCHANGED prev

Dgst ==
  /\ pc = "idle"
  /\ \E o \in DgstOptions, env \in Envs, pfail \in BOOLEAN, ffail \in BOOLEAN, lib \in Libs :
       Finish([op |-> "dgst", o |-> o, env |-> env], dgst(o, env, pfail, ffail, lib))
  /\ UNCHANGED prev

Enc ==
  /\ pc = "idle"
  /\ \E o \in EncOptions, env \in Envs, seeds \in Seeds :
       \E pfail \in PFails(env) :
         Finish([op |-> "enc", o |-> o, env |-> env], enc(o, env, seeds, pfail))
  /\ UNCHANGED prev

IsWebCryptoAvailable ==
  /\ pc = "idle"
  /\ \E env \in Envs :
       Finish([op |-> "isWebCryptoAvailable", env |-> env],
              Ok(isWebCryptoAvailable(env), <<>>))
  /\ UNCHANGED prev

Req ==
  /\ pc = "idle"
  /\ \E subject \in Subjects, kfail \in BOOLEAN :
       Finish([op |-> "req", o |-> [subject |-> subject]], req([subject |-> subject], kfail))
  /\ UNCHANGED prev

ParseCSR ==
  /\ pc = "idle"
  /\ \E csr \in CSRs, base64 \in BOOLEAN :
       Finish([op |-> "parseCSR", csr |-> csr, base64 |-> base64], parseCSR(csr, base64))
  /\ UNCHANGED prev

Codec ==
  /\ pc = "idle"
  /\ \E b \in CodecBytes, o \in CodecFlags :
       Finish([op |-> "codec", o |-> o, b |-> b], codecRoundTrip(b, o))
  /\ UNCHANGED prev

\* the options of the decryption of an encryption's result: data, iv and
\* salt as returned, everything else as in the encryption
DecryptOptions(o, val) ==
  [o EXCEPT !.decrypt = TRUE, !.input = val.data, !.iv = val.iv, !.salt = val.salt]

\* the caller decrypts what the encryption just returned
EncRoundTrip ==
  /\ pc = "done"
  /\ call.op = "enc"
  /\ ~call.o.decrypt
  /\ out.kind = "ok"
  /\ prev = NoCall
  /\ \E env \in Envs, seeds \in Seeds :
       \E pfail \in PFails(env) :
         Finish([op |-> "enc", o |-> DecryptOptions(call.o, out.val), env |-> env],
                enc(DecryptOptions(call.o, out.val), env, seeds, pfail))
  /\ prev' = [op |-> "enc", o |-> call.o, val |-> out.val]

\* the caller repeats the encryption it just made, with the same options,
\* its own salt and iv among them
EncAgain ==
  /\ pc = "done"
  /\ call.op = "enc"
  /\ ~call.o.decrypt
  /\ out.kind = "ok"
  /\ prev = NoCall
  /\ ~Falsy(call.o.salt)
  /\ ~Falsy(call.o.iv)
  /\ \E env \in Envs, seeds \in Seeds :
       \E pfail \in PFails(env) :
         Finish([op |-> "enc", o |-> call.o, env |-> env], enc(call.o, env, seeds, pfail))
  /\ prev' = [op |-> "same", o |-> call.o, val |-> out.val, env |-> call.env,
              used |-> out.used]

\* the call has returned
Return ==
  /\ pc = "done"
  /\ pc' = "idle"
  /\ call' = NoCall
  /\ out' = NoOut
  /\ trace' = <<>>
  /\ prev' = NoCall

Next == Rand \/ Dgst \/ IsWebCryptoAvailable \/ Req \/ ParseCSR \/ Codec
          \/ Enc \/ EncRoundTrip
          \/ EncAgain \/ Return

Spec == Init /\ [][Next]_vars

(***************************************************************************)
(* Properties.                                                             *)
(***************************************************************************)
Called(op) == pc = "done" /\ call.op = op

HasEv(name) == \E i \in 1..Len(trace) : trace[i].ev = name

\* the bytes a returned component stands for under the call's flags
ResultBytes(x, o) ==
  IF x.t = "Uint8Array" THEN [err |-> "", bytes |-> x.v]
  ELSE IF x.t = "string" THEN EncDecodeText(x.v, o)
  ELSE [err |-> "absent", bytes |-> <<>>]

C2_FallbackSameInputs ==
  (Called("enc") /\ out.used.psalt.t # "undefined" /\ out.used.fsalt.t # "undefined") =>
     /\ out.used.fsalt = out.used.psalt
     /\ out.used.fiters = out.used.piters
     /\ (out.used.piv.t # "undefined" /\ out.used.fiv.t # "undefined")
          => out.used.fiv = out.used.piv
     /\ ~HasEv("WordArray.random")

\* the salt and the IV the engine that produced the result was given
UsedSalt == IF out.used.fsalt.t # "undefined" THEN out.used.fsalt ELSE out.used.psalt
UsedIV == IF out.used.fiv.t # "undefined" THEN out.used.fiv ELSE out.used.piv

IsTextIn(x, e) == x.t = "string" /\ (x.e = e \/ x.v = <<>>)

\* the representation the flags of o ask for, by raw > base64 > hex > default
EffectiveOk(x, o, default) ==
  IF o.raw THEN x.t \in {"Uint8Array", "ArrayBuffer"}
  ELSE IF o.base64 THEN IsTextIn(x, "base64")
  ELSE IF o.hex THEN IsTextIn(x, "hex")
  ELSE default = "" \/ IsTextIn(x, default)

MissingCredential(o) ==
  \/ o.password = <<>>
  \/ (o.decrypt /\ Falsy(o.iv))

\* C5: an enc call with a missing credential (decrypt without password or
\* iv, encrypt without password) fails, and no backend is invoked and no
\* fallback is attempted: the call has no effects at all.
C5_CredentialsFirst ==
  (Called("enc") /\ MissingCredential(call.o)) =>
     /\ out.kind = "error"
     /\ out.err \in {"MissingCredential", "InputRequired"}
     /\ (~Falsy(call.o.input) => out.err = "MissingCredential")
     /\ trace = <<>>

C5_Witness ==
  /\ Called("enc")
  /\ call.o.decrypt
  /\ call.o.password # <<>>
  /\ Falsy(call.o.iv)
  /\ ~Falsy(call.o.input)
  /\ out.err = "MissingCredential"
  /\ call.env.subtle

\* C6: rand fails with the invalid-length error exactly for the lengths that
\* are not positive integers, and then before any random source is used.
C6_InvalidLength ==
  Called("rand") =>
     IF call.o.length.int /\ call.o.length.n > 0
     THEN out.err # "InvalidLength"
     ELSE out.kind = "error" /\ out.err = "InvalidLength" /\ trace = <<>>

C6_Witness ==
  /\ Called("rand")
  /\ call.o.length.int
  /\ call.o.length.n = 0
  /\ out.err = "InvalidLength"

\* C7: a dgst call for MD5, in any letter case, never invokes
\* crypto.subtle.digest, and a digest it returns is the fallback engine's.
C7_Md5NeverPrimary ==
  (Called("dgst") /\ ToUpperCase(call.o.algorithm) = "MD5") =>
     /\ ~HasEv("subtle.digest")
     /\ out.kind = "ok" => HasEv("CryptoJS.hash")

SupportedDigestNames ==
  {"SHA-1", "SHA1", "SHA-256", "SHA256", "SHA-384", "SHA384", "SHA-512", "SHA512", "MD5"}

\* C8: a dgst call (with a valid input) for an algorithm neither backend
\* supports fails with an unsupported-algorithm error.
C8_UnsupportedAlgorithm ==
  (Called("dgst") /\ ToUpperCase(call.o.algorithm) \notin SupportedDigestNames
     /\ ~Falsy(call.o.input) /\ call.o.input.t # "other") =>
     out.kind = "error" /\ out.err = "UnsupportedAlgorithm"

\* C9: dgst fails with the input-required error when input is undefined and
\* not when it is an empty Uint8Array or ArrayBuffer, which goes on to be
\* hashed.
C9_InputRequired ==
  Called("dgst") =>
     /\ call.o.input.t = "undefined" =>
          out.kind = "error" /\ out.err = "InputRequired" /\ trace = <<>>
     /\ (call.o.input.t \in {"Uint8Array", "ArrayBuffer"} /\ call.o.input.v = <<>>) =>
          /\ out.err # "InputRequired"
          /\ HasEv("subtle.digest") \/ HasEv("CryptoJS.hash")

C9_Witness ==
  /\ Called("dgst")
  /\ call.o.input = U8(<<>>)
  /\ out.kind = "ok"
  /\ out.val.t = "string"
  /\ Len(out.val.v) > 0

MalformedHex(s) == Len(s) % 2 = 1 \/ \E i \in 1..Len(s) : ~IsHexDigit(s[i])

\* C10: with hex set and base64 not set, enc fails with a format error when
\* the text of input, salt or iv has odd length or holds a character that is
\* no hexadecimal digit.
C10_HexFormatError ==
  (Called("enc") /\ call.o.hex /\ ~call.o.base64 /\ EncValidate(call.o) = ""
     /\ \/ (call.o.input.t = "string" /\ MalformedHex(call.o.input.v))
        \/ (call.o.salt.t = "string" /\ MalformedHex(call.o.salt.v))
        \/ (call.o.iv.t = "string" /\ MalformedHex(call.o.iv.v))) =>
     out.kind = "error" /\ out.err = "InvalidHex"

\* a salt or iv given as text that the flags' decoder rejects
BadText(x, o) == x.t = "string" /\ x.v # <<>> /\ EncDecodeText(x.v, o).err # ""

\* the call is one a format or validation check rejects
BadRequest ==
  \/ call.op = "rand" /\ ~ValidLength(call.o.length)
  \/ call.op = "dgst" /\ Falsy(call.o.input)
  \/ call.op = "enc" /\ \/ EncValidate(call.o) # ""
                        \/ EncNormalize(call.o).err \in {"Base64DecodeFailed", "InvalidHex"}
                        \/ BadText(call.o.salt, call.o)
                        \/ BadText(call.o.iv, call.o)

\* C11: a call of rand, dgst or enc that a format or validation check
\* rejects (bad base64 or hex in input, salt or iv; invalid length; missing
\* input or credential) fails before any backend is invoked: no effect of a
\* backend and no fallback warning is in its trace.
C11_ErrorsBeforeBackend ==
  (pc = "done" /\ BadRequest) => (out.kind = "error" /\ trace = <<>>)

CountEv(name) == Cardinality({i \in 1..Len(trace) : trace[i].ev = name})

PrimaryEvents == {"getRandomValues", "subtle.importKey", "subtle.deriveKey",
                  "subtle.encrypt", "subtle.decrypt", "subtle.digest"}

\* the Web Crypto path of the call failed at run time
PrimaryFailed ==
  \/ call.op = "rand" /\ HasEv("getRandomValues") /\ out.err = "QuotaExceededError"
  \/ call.op \in {"dgst", "enc"}
       /\ \E i \in 1..Len(trace) : trace[i].ev = "warn" /\ trace[i].msg # "unavailable"

\* how often the call entered its CryptoJS engine
FallbackCalls ==
  IF call.op = "rand" THEN CountEv("WordArray.random")
  ELSE IF call.op = "dgst" THEN CountEv("CryptoJS.hash")
  ELSE CountEv("CryptoJS.PBKDF2")

\* C12: when the primary backend fails at run time in rand, dgst or enc, the
\* fallback engine is invoked exactly once, and the primary backend is not
\* tried again after the fallback began.
C12_OneFallback ==
  (pc = "done" /\ call.op \in {"rand", "dgst", "enc"} /\ PrimaryFailed) =>
     /\ FallbackCalls = 1
     /\ \A i \in 1..Len(trace) : \A j \in 1..Len(trace) :
          (i < j /\ trace[i].ev = "warn") => trace[j].ev \notin PrimaryEvents

\* the failure reasons the error handed to the caller carries.  The catch
\* clauses return the promise of the CryptoJS engine, so a rejection of that
\* engine reaches the caller as it is: one reason, the fallback's.
SurfacedReasons ==
  IF out.kind = "error" THEN {[by |-> "fallback", msg |-> out.err]} ELSE {}

\* the reason the Web Crypto path failed with, as the catch clause saw it
PrimaryReasons ==
  {[by |-> "primary", msg |-> trace[i].msg] :
     i \in {j \in 1..Len(trace) : trace[j].ev = "warn" /\ trace[j].msg # "unavailable"}}

\* C13: when the primary backend fails and the fallback then fails too, in
\* dgst or enc, the error surfaced to the caller carries both failure
\* reasons, the primary's and the fallback's.
C13_BothReasons ==
  (pc = "done" /\ call.op \in {"dgst", "enc"} /\ PrimaryFailed /\ out.kind = "error") =>
     /\ [by |-> "fallback", msg |-> out.err] \in SurfacedReasons
     /\ PrimaryReasons \subseteq SurfacedReasons

FallbackEvents == {"WordArray.random", "CryptoJS.PBKDF2", "CryptoJS.AES.encrypt",
                   "CryptoJS.AES.decrypt", "CryptoJS.hash"}

\* a warning is in the trace before position i
WarnedBefore(i) == \E j \in 1..(i - 1) : trace[j].ev = "warn"

\* C14: whenever rand, dgst or enc uses the fallback engine, a warning was
\* emitted before the engine's first invocation; when dgst falls back after
\* crypto.subtle.digest failed, that warning names the algorithm and the
\* failure reason.
C14_WarnBeforeFallback ==
  (pc = "done" /\ call.op \in {"rand", "dgst", "enc"}) =>
     /\ \A i \in 1..Len(trace) : trace[i].ev \in FallbackEvents => WarnedBefore(i)
     /\ (call.op = "dgst" /\ HasEv("subtle.digest") /\ HasEv("CryptoJS.hash")) =>
          \E j \in 1..Len(trace) :
             /\ trace[j].ev = "warn"
             /\ trace[j].alg = call.o.algorithm
             /\ trace[j].msg \in {"OperationError", "NotSupportedError"}
             /\ \A i \in 1..Len(trace) : trace[i].ev = "CryptoJS.hash" => j < i

C14_Witness ==
  /\ Called("dgst")
  /\ HasEv("subtle.digest")
  /\ HasEv("CryptoJS.hash")
  /\ HasEv("warn")
  /\ trace[2] = Warn(call.o.algorithm, "OperationError")

\* C15: isWebCryptoAvailable returns the boolean true when the runtime has
\* both crypto.subtle and the function crypto.getRandomValues, returns the
\* boolean false in every other runtime, and has no effect.
C15_AvailabilityBoolean ==
  Called("isWebCryptoAvailable") =>
     /\ out.kind = "ok"
     /\ out.val = Bool(call.env.window /\ call.env.crypto /\ call.env.subtle /\ call.env.grv)
     /\ trace = <<>>

\* the piece of seg before its first '=' and the piece after it
BeforeFirstEq(seg) == Split(seg, 61)[1]
AfterFirstEq(seg) == SubSeq(seg, Len(BeforeFirstEq(seg)) + 2, Len(seg))

\* the attributes of a subject when every segment is cut at its first '='
\* only, nameless and valueless segments dropped, order kept
RECURSIVE FirstEqAttrs(_)
FirstEqAttrs(segs) ==
  IF segs = <<>> THEN <<>>
  ELSE LET seg == Head(segs)
       IN  (IF BeforeFirstEq(seg) # <<>> /\ AfterFirstEq(seg) # <<>>
            THEN <<[shortName |-> UpperText(BeforeFirstEq(seg)), value |-> AfterFirstEq(seg)]>>
            ELSE <<>>) \o FirstEqAttrs(Tail(segs))

\* C16: the attributes of a request req generates are those of the subject
\* split on '/' and each segment cut at its first '=' only (the value keeps
\* later '='), segments without a name or a value dropped, in subject order.
\* Stated for the subjects of the documented form, which begin with '/'.
C16_SubjectParsing ==
  (Called("req") /\ out.kind = "ok" /\ Head(call.o.subject.v) = 47) =>
     out.val.v = FirstEqAttrs(Split(call.o.subject.v, 47))

\* C17: parseCSR fails whenever the self-signature of the request does not
\* verify, be it that verification throws or that it returns false, and it
\* returns the details of the request only when the signature verified.
C17_VerifyFailureFails ==
  Called("parseCSR") =>
     /\ call.csr.sig # "valid" => out.kind = "error"
     /\ out.kind = "ok" => call.csr.sig = "valid"

ByFallback == out.used.fsalt.t # "undefined"

\* the bytes the cipher produced in the encryption of the call, from the
\* key, the iv and the plaintext the producing engine was given
CipherOutput ==
  IF ByFallback
  THEN AesEncrypt("CBC",
                  Pbkdf2(Utf8Encode(call.o.password), UsedSalt.v, out.used.fiters,
                         out.used.fbits, ""),
                  UsedIV.v, EncNormalize(call.o).bytes)
  ELSE AesEncrypt(IF IsGCM(call.o.algorithm) THEN "GCM" ELSE "CBC",
                  Pbkdf2(Utf8Encode(call.o.password), UsedSalt.v, out.used.piters,
                         KeyLength(call.o.algorithm), DeriveName(call.o.algorithm)),
                  UsedIV.v, EncNormalize(call.o).bytes)

HasBom(b) == Len(b) >= 3 /\ b[1] = 239 /\ b[2] = 187 /\ b[3] = 191

\* the byte sequences a text of the encoding the flags select can stand for
\* in enc: any under base64, any but the empty one under hex (its text is
\* empty), the well-formed UTF-8 sequences without a byte order mark else
Representable(b, o) ==
  IF o.base64 THEN TRUE
  ELSE IF o.hex THEN b # <<>>
  ELSE Utf8ValidFrom(b, 1) /\ ~HasBom(b)

ThreePart(a) == Len(AlgSplit(a)) = 3

\* the mode suffix of an algorithm name: its last segment
ModeSuffix(a) == AlgSplit(a)[Len(AlgSplit(a))]

\* C21: for an algorithm of the form AES-<bits>-<MODE>, the key enc derives
\* has <bits> bits and the cipher runs in GCM when <MODE> is GCM and in CBC
\* when <MODE> is CBC, on the Web Crypto path and on the CryptoJS path.
C21_KeyLengthAndMode ==
  (Called("enc") /\ ThreePart(call.o.algorithm)) =>
     /\ HasEv("subtle.deriveKey") =>
          /\ out.used.pbits = AlgDigits(call.o.algorithm)
          /\ out.used.pname = "AES-" \o ModeSuffix(call.o.algorithm)
     /\ out.used.pcipher # "" =>
          out.used.pcipher = "AES-" \o ModeSuffix(call.o.algorithm)
     /\ HasEv("CryptoJS.PBKDF2") =>
          out.used.fbits = AlgDigits(call.o.algorithm)
     /\ out.used.fmode # "" =>
          out.used.fmode = ModeSuffix(call.o.algorithm)

\* C22: for the same password, salt text, encoding flags, iterations and
\* algorithm, the Web Crypto path and the CryptoJS path hand PBKDF2 the same
\* password bytes, salt bytes, iteration count and key length in bits (the
\* hash is SHA-256 on both), whatever the algorithm name and the iterations.
C22_SameKdfParameters ==
  (/\ Called("enc")
   /\ ~Falsy(call.o.salt)
   /\ HasEv("subtle.deriveKey")
   /\ HasEv("CryptoJS.PBKDF2")) =>
     /\ out.used.fpw = out.used.ppw
     /\ out.used.fsalt = out.used.psalt
     /\ out.used.fiters = out.used.piters
     /\ out.used.fbits = out.used.pbits

\* C23: on the Web Crypto path of enc, the algorithm name passed to
\* subtle.encrypt / subtle.decrypt is the name the key was derived for
\* (AES-CBC or AES-GCM), so that the cipher call is not refused for its name.
C23_CipherNameIsKeyName ==
  (Called("enc") /\ (HasEv("subtle.encrypt") \/ HasEv("subtle.decrypt"))) =>
     /\ out.used.pcipher = out.used.pname
     /\ out.used.pcipher \in SubtleCiphers

\* the representation of a value: its type and, for text, its encoding
Representation(x) == [t |-> x.t, e |-> IF x.t = "string" THEN x.e ELSE ""]

\* C24: for the same input, algorithm and flags, a digest dgst returns has
\* the same representation whether the Web Crypto path or the CryptoJS path
\* served it: what dgst returned is in the representation each of the two
\* paths gives a digest under the flags of the call, and that is a byte
\* buffer when raw is set.
C24_SameRepresentation ==
  (Called("dgst") /\ out.kind = "ok") =>
     LET h == Digest(CryptoJSAlgo(call.o.algorithm), DgstNormalize(call.o.input))
     IN  /\ Representation(out.val) = Representation(DgstPrimaryFormat(h, call.o))
         /\ Representation(out.val) = Representation(CryptoJSHashFormat(h, call.o))
         /\ call.o.raw => out.val.t \in {"ArrayBuffer", "Uint8Array"}

\* the call ran code of its Web Crypto branch: it called a Web Crypto API,
\* or the catch clause of that branch logged its warning
TookPrimaryBranch ==
  \E i \in 1..Len(trace) :
     \/ trace[i].ev \in PrimaryEvents
     \/ (trace[i].ev = "warn" /\ trace[i].alg # "")

\* C25: in every runtime configuration, rand, dgst and enc take their Web
\* Crypto branch only if isWebCryptoAvailable() is true, and call
\* getRandomValues or crypto.subtle only where it is present (enc draws the
\* salt from getRandomValues in its Web Crypto branch when none is given).
C25_PrimaryOnlyIfAvailable ==
  (pc = "done" /\ call.op \in {"rand", "dgst", "enc"}) =>
     /\ TookPrimaryBranch => isWebCryptoAvailable(call.env) = Bool(TRUE)
     /\ HasEv("getRandomValues") => call.env.grv
     /\ (call.op = "enc" /\ TookPrimaryBranch /\ Falsy(call.o.salt)) => call.env.grv
     /\ (\E i \in 1..Len(trace) : trace[i].ev \in PrimaryEvents \ {"getRandomValues"})
          => call.env.subtle

====
